---- MODULE Spec2Model ----
(***************************************************************************)
(* A model of padloper/_property_nodes.py (PropertyType.get_count,         *)
(* Property._validate, Property._add) and of                               *)
(* python-interface/local_graph.py (LocalGraph).                           *)
(*                                                                         *)
(* Python strings are modelled as sequences of one-character strings, so   *)
(* that substring and regular-expression matching are computed.            *)
(***************************************************************************)
EXTENDS Integers, Sequences, FiniteSets, TLC

VARIABLES
    \* ---- Property construction ----
    args,         \* keyword arguments of a Property(...) call to be made
    result,       \* outcome of the last call: ok, or the exception raised
    cur,          \* the Property object the last successful call returned
    \* ---- the graph database ----
    storeTypes,   \* property_type vertices: name -> [active, allowed_types]
    storeProps,   \* property vertices, by id 1..n: [values, type]
    storeEdges,   \* RelationPropertyType edges: [outV, inV]
    writes,       \* the store writes, in the order they were issued
    pc,           \* position inside Property._add
    pstat,        \* how the last Property._add ended
    pid,          \* the vertex id Vertex.add gave the Property being added
    \* ---- PropertyType.get_count ----
    filtersArg,   \* the filters argument
    countResult,  \* what get_count returned or raised
    \* ---- LocalGraph ----
    graph,        \* self.graph: [n, es, vs]
    gpc,          \* "idle", or "loop" inside create_from_connections_undirected
    consumed,     \* the endpoints of vertex_connections iterated so far
    vertex_properties,
    vertex_name_to_ind,
    vertex_index_connections,
    vertices_so_far,
    indices,
    bstat,        \* how the last build ended
    prevN,        \* the number of vertices the graph had before that build
    query,        \* the arguments of the last find_shortest_paths
    spResult      \* what it returned or raised

propVars == <<args, result, cur>>
storeVars == <<storeTypes, storeProps, storeEdges, writes, pc, pstat, pid>>
countVars == <<filtersArg, countResult>>
buildVars == <<consumed, vertex_properties, vertex_name_to_ind,
               vertex_index_connections, vertices_so_far, indices>>
graphVars == <<graph, gpc, consumed, vertex_properties, vertex_name_to_ind,
               vertex_index_connections, vertices_so_far, indices, bstat,
               prevN, query, spResult>>
vars == <<args, result, cur, storeTypes, storeProps, storeEdges, writes, pc,
          pstat, pid, filtersArg, countResult, graph, gpc, consumed,
          vertex_properties, vertex_name_to_ind, vertex_index_connections,
          vertices_so_far, indices, bstat, prevN, query, spResult>>

\* --------------------------------------------------------------- bounds
MaxStrLen == 2    \* longest value string tried by the constructor
MaxValues == 2    \* longest values list tried by the constructor
MaxProps == 2     \* property vertices the store may hold
MaxFilters == 2   \* longest filters list given to get_count
MaxConn == 2      \* most connection records given to one build

Alphabet == {"a", "b"}
SeqsUpTo(S, n) == UNION {[1..k -> S] : k \in 0..n}
Strs == SeqsUpTo(Alphabet, MaxStrLen)
ShortStrs == SeqsUpTo(Alphabet, 1)
PersistStrs == [1..1 -> Alphabet]

\* ------------------------------------------------------- re.fullmatch
\* A pattern is a sequence of atoms (a literal character, or "." for any
\* character), each optionally followed by "*".
AtomMatches(atom, c) == atom = "." \/ atom = c

RECURSIVE re_match_from(_, _, _)
re_match_from(pattern, s, full) ==
    IF pattern = <<>>
    THEN (full => s = <<>>)
    ELSE IF Len(pattern) >= 2 /\ pattern[2] = "*"
    THEN \E k \in 0..Len(s) :
            /\ \A i \in 1..k : AtomMatches(pattern[1], s[i])
            /\ re_match_from(SubSeq(pattern, 3, Len(pattern)),
                             SubSeq(s, k + 1, Len(s)), full)
    ELSE /\ s # <<>>
         /\ AtomMatches(pattern[1], s[1])
         /\ re_match_from(Tail(pattern), Tail(s), full)

re_fullmatch(pattern, s) == re_match_from(pattern, s, TRUE)

\* ------------------------------------------------------- PropertyType
\* The PropertyType objects the program holds in memory.
PropertyTypes ==
    { [name |-> <<"a">>, allowed_regex |-> <<".", "*">>, n_values |-> 1,
       allowed_types |-> {"O1"}],
      [name |-> <<"a", "b">>, allowed_regex |-> <<"a", "b", "*">>,
       n_values |-> 1, allowed_types |-> {"O1", "O2"}],
      [name |-> <<"b">>, allowed_regex |-> <<"a">>, n_values |-> 2,
       allowed_types |-> {"O2"}] }

NoType == [name |-> <<>>, allowed_regex |-> <<>>, n_values |-> 0,
           allowed_types |-> {}]

\* ------------------------------------------------- Property._validate
\* kwargs: [hasValues, isList, values, hasType, type]. values is a list of
\* strings when isList, and one string (a scalar) otherwise.
ListKwargs(strs) ==
    [hasValues : {TRUE}, isList : {TRUE}, values : SeqsUpTo(strs, MaxValues),
     hasType : {TRUE}, type : PropertyTypes]
    \cup [hasValues : {FALSE}, isList : {TRUE}, values : {<<>>},
          hasType : BOOLEAN, type : {NoType}]
    \cup [hasValues : {TRUE}, isList : {TRUE}, values : SeqsUpTo(strs, 1),
          hasType : {FALSE}, type : {NoType}]
ScalarKwargs(strs) ==
    [hasValues : {TRUE}, isList : {FALSE}, values : strs,
     hasType : {TRUE}, type : PropertyTypes]

\* if not isinstance(kwargs["values"], list):
\*     kwargs["values"] = [kwargs["values"]]
CoercedValues(kw) == IF kw.isList THEN kw.values ELSE <<kw.values>>

Ok == [kind |-> "ok", fmt |-> "", nums |-> <<>>, words |-> <<>>,
       texts |-> <<>>]
NotCalled == [kind |-> "none", fmt |-> "", nums |-> <<>>, words |-> <<>>,
              texts |-> <<>>]
MissingKeyword(k) ==
    [kind |-> "TypeError", fmt |-> "missing", nums |-> <<>>,
     words |-> <<"Property", k>>, texts |-> <<>>]
\* "%d value%s %s required." % (nn, "" if nn == 1 else "s", ...)
ValuesRequired(nn) ==
    [kind |-> "TypeError", fmt |-> "required", nums |-> <<nn>>,
     words |-> <<IF nn = 1 THEN "" ELSE "s", IF nn = 1 THEN "is" ELSE "are">>,
     texts |-> <<>>]
\* f"Property with value {val} of type {name} does not match regex {regex}."
RegexMismatch(val, type) ==
    [kind |-> "ValueError", fmt |-> "regex", nums |-> <<>>, words |-> <<>>,
     texts |-> <<val, type.name, type.allowed_regex>>]

FirstMismatch(type, values) ==
    CHOOSE i \in 1..Len(values) :
        /\ ~re_fullmatch(type.allowed_regex, values[i])
        /\ \A j \in 1..(i - 1) : re_fullmatch(type.allowed_regex, values[j])

\* Variants of _validate, each with one slip, used to show that the
\* properties below depend on it.
\* the loop stops after the first value
Property_validate_firstOnly(kw) ==
    IF ~kw.hasValues THEN MissingKeyword("values")
    ELSE IF ~kw.hasType THEN MissingKeyword("type")
    ELSE IF Len(CoercedValues(kw)) # kw.type.n_values
    THEN ValuesRequired(kw.type.n_values)
    ELSE IF /\ Len(CoercedValues(kw)) >= 1
            /\ ~re_fullmatch(kw.type.allowed_regex, CoercedValues(kw)[1])
    THEN RegexMismatch(CoercedValues(kw)[1], kw.type)
    ELSE Ok

\* len(values) < nn instead of len(values) != nn
Property_validate_arityLess(kw) ==
    IF ~kw.hasValues THEN MissingKeyword("values")
    ELSE IF ~kw.hasType THEN MissingKeyword("type")
    ELSE IF Len(CoercedValues(kw)) < kw.type.n_values
    THEN ValuesRequired(kw.type.n_values)
    ELSE IF \E i \in 1..Len(CoercedValues(kw)) :
                ~re_fullmatch(kw.type.allowed_regex, CoercedValues(kw)[i])
    THEN RegexMismatch(
            CoercedValues(kw)[FirstMismatch(kw.type, CoercedValues(kw))],
            kw.type)
    ELSE Ok

\* the loop over the values is missing
Property_validate_noRegex(kw) ==
    IF ~kw.hasValues THEN MissingKeyword("values")
    ELSE IF ~kw.hasType THEN MissingKeyword("type")
    ELSE IF Len(CoercedValues(kw)) # kw.type.n_values
    THEN ValuesRequired(kw.type.n_values)
    ELSE Ok

Property_validate(kw) ==
    IF ~kw.hasValues THEN MissingKeyword("values")
    ELSE IF ~kw.hasType THEN MissingKeyword("type")
    ELSE IF Len(CoercedValues(kw)) # kw.type.n_values
    THEN ValuesRequired(kw.type.n_values)
    ELSE IF \E i \in 1..Len(CoercedValues(kw)) :
                ~re_fullmatch(kw.type.allowed_regex, CoercedValues(kw)[i])
    THEN RegexMismatch(
            CoercedValues(kw)[FirstMismatch(kw.type, CoercedValues(kw))],
            kw.type)
    ELSE Ok

NoObject == [made |-> FALSE, type |-> NoType, values |-> <<>>]

\* Property(**kwargs): the initialiser calls _validate, and only then
\* sets the attributes.
Construct(kw) ==
    /\ pc = "idle"
    /\ result' = Property_validate(kw)
    /\ cur' = IF Property_validate(kw).kind = "ok"
              THEN [made |-> TRUE, type |-> kw.type,
                    values |-> CoercedValues(kw)]
              ELSE cur
    /\ UNCHANGED <<args, storeVars, countVars, graphVars>>

\* ------------------------------------------------------ Property._add
\* What the persistence base classes do (they are not part of the two
\* modelled files): Vertex.add creates a vertex and gives the object its
\* id, added_to_db looks the entity up by its primary attribute, and
\* PropertyType.add creates the property_type vertex.
WriteRec(kind, p, t) == [kind |-> kind, p |-> p, t |-> t]

Vertex_add(obj) ==
    /\ storeProps' = Append(storeProps,
                            [values |-> obj.values, type |-> obj.type])
    /\ pid' = Len(storeProps) + 1
    /\ writes' = Append(writes, WriteRec("property", Len(storeProps) + 1,
                                         <<>>))

added_to_db(type) == type.name \in DOMAIN storeTypes

PropertyType_add(type) ==
    /\ storeTypes' =
          [n \in DOMAIN storeTypes \cup {type.name} |->
              IF n = type.name
              THEN [active |-> TRUE, allowed_types |-> type.allowed_types]
              ELSE storeTypes[n]]
    /\ writes' = Append(writes, WriteRec("type", 0, type.name))

RelationPropertyType_add(inVertex, outVertex) ==
    /\ storeEdges' = storeEdges \cup {[outV |-> outVertex, inV |-> inVertex]}
    /\ writes' = Append(writes, WriteRec("edge", outVertex, inVertex))

\* attributes = {'values': self.values}; Vertex.add(self, attributes)
Property_add_vertex ==
    /\ pc = "idle"
    /\ cur.made
    /\ Len(storeProps) < MaxProps
    /\ Vertex_add(cur)
    /\ pc' = "type"
    /\ pstat' = "running"
    /\ UNCHANGED <<propVars, storeTypes, storeEdges, countVars, graphVars>>

\* Variants of the type step of _add, each with one slip.
\* the type is never added
Property_add_type_never ==
    /\ pc = "type"
    /\ pc' = "edge"
    /\ UNCHANGED <<propVars, storeTypes, storeProps, storeEdges, writes,
                   pstat, pid, countVars, graphVars>>

\* the type is added without asking added_to_db()
Property_add_type_always ==
    /\ pc = "type"
    /\ PropertyType_add(cur.type)
    /\ pc' = "edge"
    /\ UNCHANGED <<propVars, storeProps, storeEdges, pstat, pid, countVars, graphVars>>

\* if not self.type.added_to_db(): self.type.add()
Property_add_type ==
    /\ pc = "type"
    /\ IF ~added_to_db(cur.type)
       THEN PropertyType_add(cur.type)
       ELSE UNCHANGED <<storeTypes, writes>>
    /\ pc' = "edge"
    /\ UNCHANGED <<propVars, storeProps, storeEdges, pstat, pid, countVars, graphVars>>

\* e = RelationPropertyType(inVertex=self.type, outVertex=self); e.add()
Property_add_edge ==
    /\ pc = "edge"
    /\ RelationPropertyType_add(cur.type.name, pid)
    /\ pc' = "idle"
    /\ pstat' = "done"
    /\ UNCHANGED <<propVars, storeTypes, storeProps, pid, countVars, graphVars>>

\* A store round trip raises: _add has no handler, so the exception leaves
\* it where it is, with the writes made so far in place.
StorageError ==
    /\ \/ pc = "idle" /\ cur.made
       \/ pc \in {"type", "edge"}
    /\ pc' = "idle"
    /\ pstat' = "failed"
    /\ UNCHANGED <<propVars, storeTypes, storeProps, storeEdges, writes, pid,
                   countVars, graphVars>>

\* --------------------------------------------- PropertyType.get_count
Owners == {"O1", "O2"}
TypeNames == {T.name : T \in PropertyTypes}
Substrings == ShortStrs \cup {<<"a", "b">>}

\* TextP.containing
Containing(s, sub) ==
    \E i \in 0..(Len(s) - Len(sub)) : SubSeq(s, i + 1, i + Len(sub)) = sub

\* contents: the clauses one filter contributes
FilterContents(f) ==
    (IF f[1] # <<>> THEN <<"name">> ELSE <<>>)
    \o (IF f[2] # "" THEN <<"ctype">> ELSE <<>>)

\* __.has('name', TextP.containing(f[0])) and
\* __.both(RelationPropertyAllowedType.category).has('name', f[1])
ClauseHolds(c, n, f) ==
    IF c = "name" THEN Containing(n, f[1])
    ELSE f[2] \in storeTypes[n].allowed_types

HasContents(f) == Len(FilterContents(f)) > 0
Ands(filters) == SelectSeq(filters, HasContents)

AndHolds(f, n) ==
    \A j \in 1..Len(FilterContents(f)) : ClauseHolds(FilterContents(f)[j], n, f)

CountOk(n) == [kind |-> "ok", n |-> n]
CountNotCalled == [kind |-> "none", n |-> 0]
CountAssertionError == [kind |-> "AssertionError", n |-> 0]

\* A variant of get_count with one slip: the filters are joined with and_
\* instead of or_.
get_count_allFilters(fa) ==
    IF ~fa.isNone /\ \E i \in 1..Len(fa.list) : Len(fa.list[i]) # 2
    THEN CountAssertionError
    ELSE CountOk(Cardinality(
            {n \in DOMAIN storeTypes :
                /\ storeTypes[n].active
                /\ (~fa.isNone /\ Len(Ands(fa.list)) > 0) =>
                      \A i \in 1..Len(Ands(fa.list)) :
                          AndHolds(Ands(fa.list)[i], n)}))

get_count(fa) ==
    IF ~fa.isNone /\ \E i \in 1..Len(fa.list) : Len(fa.list[i]) # 2
    THEN CountAssertionError
    ELSE CountOk(Cardinality(
            {n \in DOMAIN storeTypes :
                /\ storeTypes[n].active
                /\ (~fa.isNone /\ Len(Ands(fa.list)) > 0) =>
                      \E i \in 1..Len(Ands(fa.list)) :
                          AndHolds(Ands(fa.list)[i], n)}))

GetCount ==
    /\ countResult.kind = "none"
    /\ countResult' = get_count(filtersArg)
    /\ UNCHANGED <<propVars, storeVars, filtersArg, graphVars>>

\* ---------------------------------------------------------- LocalGraph
\* An igraph.Graph: n vertices with ids 0..n-1, the edge list es of id
\* pairs, and the vertex attributes vs (key -> one value per vertex).
EmptyGraph == [n |-> 0, es |-> <<>>, vs |-> <<>>]
NoQuery == [kind |-> "none", paths |-> {}]

Names == {"A", "B"}
Types == {"X", "Y"}
\* pair[i]: {'properties': {key: [value]}, 'type': str}
Endpoint(name, type) == [properties |-> [name |-> <<name>>], type |-> type]
ColouredEndpoint(name, type, colour) ==
    [properties |-> [name |-> <<name>>, color |-> <<colour>>], type |-> type]
PlainEndpoints == {Endpoint(n, "X") : n \in Names}
AllEndpoints ==
    {Endpoint(n, t) : n \in Names, t \in Types}
    \cup {ColouredEndpoint(n, t, "red") : n \in Names, t \in Types}

\* properties['type'] = [type]
WithType(ep) ==
    [key \in DOMAIN ep.properties \cup {"type"} |->
        IF key = "type" THEN <<ep.type>> ELSE ep.properties[key]]

\* vertex_properties = {}; vertex_name_to_ind = {};
\* vertex_index_connections = []; vertices_so_far = 0
BuildStart ==
    /\ gpc = "idle"
    /\ gpc' = "loop"
    /\ consumed' = <<>>
    /\ vertex_properties' = <<>>
    /\ vertex_name_to_ind' = <<>>
    /\ vertex_index_connections' = <<>>
    /\ vertices_so_far' = 0
    /\ indices' = <<>>
    /\ query' = <<"", "">>
    /\ spResult' = NoQuery
    /\ UNCHANGED <<graph, bstat, prevN>>
    /\ UNCHANGED <<propVars, storeVars, countVars>>

\* for key in properties: vertex_properties[key].append(properties[key][0])
AppendProperties(table, properties) ==
    [key \in DOMAIN table \cup DOMAIN properties |->
        IF key \in DOMAIN properties
        THEN Append(IF key \in DOMAIN table THEN table[key] ELSE <<>>,
                    properties[key][1])
        ELSE table[key]]

\* Variants of the loop body and of the end of the build, each with one
\* slip.
\* a name seen before has its stored values overwritten
BuildEndpoint_overwrite(ep) ==
    /\ gpc = "loop"
    /\ indices = <<>> => Len(vertex_index_connections) < MaxConn
    /\ LET properties == WithType(ep)
           name == properties["name"][1]
           seen == name \in DOMAIN vertex_name_to_ind
           ind == IF seen THEN vertex_name_to_ind[name] ELSE vertices_so_far
       IN  /\ vertex_name_to_ind' =
                 IF seen THEN vertex_name_to_ind
                 ELSE [m \in DOMAIN vertex_name_to_ind \cup {name} |->
                          IF m = name THEN vertices_so_far
                          ELSE vertex_name_to_ind[m]]
           /\ vertex_properties' =
                 IF seen
                 THEN [key \in DOMAIN vertex_properties |->
                          IF /\ key \in DOMAIN properties
                             /\ ind + 1 <= Len(vertex_properties[key])
                          THEN [vertex_properties[key] EXCEPT
                                   ![ind + 1] = properties[key][1]]
                          ELSE vertex_properties[key]]
                 ELSE AppendProperties(vertex_properties, properties)
           /\ vertices_so_far' =
                 IF seen THEN vertices_so_far ELSE vertices_so_far + 1
           /\ IF Len(indices) = 1
              THEN /\ vertex_index_connections' =
                         Append(vertex_index_connections,
                                Append(indices, ind))
                   /\ indices' = <<>>
              ELSE /\ indices' = Append(indices, ind)
                   /\ UNCHANGED vertex_index_connections
    /\ consumed' = Append(consumed, ep)
    /\ UNCHANGED <<graph, gpc, bstat, prevN, query, spResult>>
    /\ UNCHANGED <<propVars, storeVars, countVars>>

\* One pass of the inner loop (for i in range(len(pair))) over endpoint
\* ep; after the second endpoint of a pair the index tuple is recorded.
BuildEndpoint(ep) ==
    /\ gpc = "loop"
    /\ indices = <<>> => Len(vertex_index_connections) < MaxConn
    /\ LET properties == WithType(ep)
           name == properties["name"][1]
           seen == name \in DOMAIN vertex_name_to_ind
           ind == IF seen THEN vertex_name_to_ind[name] ELSE vertices_so_far
       IN  /\ vertex_name_to_ind' =
                 IF seen THEN vertex_name_to_ind
                 ELSE [m \in DOMAIN vertex_name_to_ind \cup {name} |->
                          IF m = name THEN vertices_so_far
                          ELSE vertex_name_to_ind[m]]
           /\ vertex_properties' =
                 IF seen THEN vertex_properties
                 ELSE AppendProperties(vertex_properties, properties)
           /\ vertices_so_far' =
                 IF seen THEN vertices_so_far ELSE vertices_so_far + 1
           /\ IF Len(indices) = 1
              THEN /\ vertex_index_connections' =
                         Append(vertex_index_connections,
                                Append(indices, ind))
                   /\ indices' = <<>>
              ELSE /\ indices' = Append(indices, ind)
                   /\ UNCHANGED vertex_index_connections
    /\ consumed' = Append(consumed, ep)
    /\ UNCHANGED <<graph, gpc, bstat, prevN, query, spResult>>
    /\ UNCHANGED <<propVars, storeVars, countVars>>

\* igraph.Graph(edges): as many vertices as the largest id asks for
VertexCount(es) ==
    IF es = <<>> THEN 0
    ELSE 1 + CHOOSE m \in {es[k][i] : k \in 1..Len(es), i \in 1..2} :
                 \A k \in 1..Len(es), i \in 1..2 : es[k][i] <= m

\* graph.vs[key] = values: a list shorter than the vertex count is reused
\* from its start, a longer one is cut
SetAttribute(n, values) ==
    [i \in 1..n |-> values[((i - 1) % Len(values)) + 1]]

\* self.graph = igraph.Graph(vertex_index_connections)
\* for key in vertex_properties: self.graph.vs[key] = vertex_properties[key]
\* self.graph.vs['label'] = self.graph.vs['name']
Materialize(es, table) ==
    LET n == VertexCount(es)
        given == [key \in DOMAIN table |-> SetAttribute(n, table[key])]
    IN  [n |-> n, es |-> es,
         vs |-> IF "name" \in DOMAIN given
                THEN [key \in DOMAIN given \cup {"label"} |->
                         IF key = "label" THEN given["name"] ELSE given[key]]
                ELSE given]

\* the new edges are added to the graph already there
BuildFinish_merge ==
    /\ gpc = "loop"
    /\ indices = <<>>
    /\ graph' = Materialize(graph.es \o vertex_index_connections,
                            vertex_properties)
    /\ bstat' = IF "name" \in DOMAIN vertex_properties THEN "ok"
                ELSE "KeyError"
    /\ prevN' = graph.n
    /\ gpc' = "idle"
    /\ UNCHANGED <<buildVars, query, spResult>>
    /\ UNCHANGED <<propVars, storeVars, countVars>>

\* the loop has ended: lines 91 to 96
BuildFinish ==
    /\ gpc = "loop"
    /\ indices = <<>>
    /\ graph' = Materialize(vertex_index_connections, vertex_properties)
    /\ bstat' = IF "name" \in DOMAIN vertex_properties THEN "ok"
                ELSE "KeyError"
    /\ prevN' = graph.n
    /\ gpc' = "idle"
    /\ UNCHANGED <<buildVars, query, spResult>>
    /\ UNCHANGED <<propVars, storeVars, countVars>>

\* ---- find_shortest_paths: igraph's get_all_shortest_paths
\* how many edges join u and v
EdgesBetween(g, u, v) ==
    Cardinality({k \in 1..Len(g.es) :
        g.es[k] = <<u, v>> \/ g.es[k] = <<v, u>>})

\* the vertex sequences of the walks of len edges from s to t
Walks(g, s, t, len) ==
    {w \in [1..(len + 1) -> 0..(g.n - 1)] :
        /\ w[1] = s
        /\ w[len + 1] = t
        /\ \A i \in 1..len : EdgesBetween(g, w[i], w[i + 1]) > 0}

RECURSIVE EdgeSequences(_, _, _)
EdgeSequences(g, w, i) ==
    IF i >= Len(w) THEN 1
    ELSE EdgesBetween(g, w[i], w[i + 1]) * EdgeSequences(g, w, i + 1)

\* every shortest walk, once per sequence of edges that follows it
AllShortestPaths(g, s, t) ==
    LET lens == {len \in 0..(g.n - 1) : Walks(g, s, t, len) # {}}
    IN  IF lens = {} THEN {}
        ELSE LET d == CHOOSE len \in lens : \A o \in lens : len <= o
             IN  {[path |-> w, copies |-> EdgeSequences(g, w, 1)] :
                     w \in Walks(g, s, t, d)}

\* igraph looks a str vertex up in the "name" attribute
HasVertex(g, name) ==
    /\ "name" \in DOMAIN g.vs
    /\ \E i \in 1..g.n : g.vs["name"][i] = name
VertexId(g, name) == (CHOOSE i \in 1..g.n : g.vs["name"][i] = name) - 1

QueryNames == Names \cup {"Z"}

\* return self.graph.get_all_shortest_paths(name1, to=name2, ...)
get_all_shortest_paths(g, name1, name2) ==
    IF ~HasVertex(g, name1) \/ ~HasVertex(g, name2)
    THEN [kind |-> "ValueError", paths |-> {}]
    ELSE [kind |-> "ok",
          paths |-> AllShortestPaths(g, VertexId(g, name1),
                                     VertexId(g, name2))]

find_shortest_paths(name1, name2) ==
    /\ gpc = "idle"
    /\ query' = <<name1, name2>>
    /\ spResult' = get_all_shortest_paths(graph, name1, name2)
    /\ UNCHANGED <<graph, gpc, buildVars, bstat, prevN>>
    /\ UNCHANGED <<propVars, storeVars, countVars>>

\* ------------------------------------------------------ specifications
FilterSet == (Substrings \X (Owners \cup {""})) \cup {<<<<"a">>>>}
FilterArgs ==
    [isNone : {FALSE}, list : SeqsUpTo(FilterSet, MaxFilters)]
    \cup [isNone : {TRUE}, list : {<<>>}]
Stores ==
    UNION {[D -> [active : BOOLEAN, allowed_types : SUBSET Owners \ {{}}]] :
              D \in SUBSET TypeNames}

NoKwargs == [hasValues |-> FALSE, isList |-> TRUE, values |-> <<>>,
             hasType |-> FALSE, type |-> NoType]

InitProps ==
    /\ args = NoKwargs
    /\ result = NotCalled
    /\ cur = NoObject
InitStore ==
    /\ storeTypes = <<>>
    /\ storeProps = <<>>
    /\ storeEdges = {}
    /\ writes = <<>>
    /\ pc = "idle"
    /\ pstat = "none"
    /\ pid = 0
InitCount ==
    /\ filtersArg = [isNone |-> TRUE, list |-> <<>>]
    /\ countResult = CountNotCalled
\* LocalGraph(): self.graph = igraph.Graph()
InitGraph ==
    /\ graph = EmptyGraph
    /\ gpc = "idle"
    /\ consumed = <<>>
    /\ vertex_properties = <<>>
    /\ vertex_name_to_ind = <<>>
    /\ vertex_index_connections = <<>>
    /\ vertices_so_far = 0
    /\ indices = <<>>
    /\ bstat = "none"
    /\ prevN = 0
    /\ query = <<"", "">>
    /\ spResult = NoQuery

\* get_count, applied once to every store content and filters argument
InitGetCount ==
    /\ InitProps
    /\ storeTypes \in Stores
    /\ storeProps = <<>>
    /\ storeEdges = {}
    /\ writes = <<>>
    /\ pc = "idle"
    /\ pstat = "none"
    /\ pid = 0
    /\ filtersArg \in FilterArgs
    /\ countResult = CountNotCalled
    /\ InitGraph
NextCount == GetCount
SpecCount == InitGetCount /\ [][NextCount]_vars

\* Property(...), applied once to every keyword combination
InitValidate ==
    /\ \/ args \in ListKwargs(Strs)
       \/ args \in ScalarKwargs(Strs)
    /\ result = NotCalled
    /\ cur = NoObject
    /\ InitStore
    /\ InitCount
    /\ InitGraph
NextValidate == result.kind = "none" /\ Construct(args)
SpecValidate == InitValidate /\ [][NextValidate]_vars

\* constructions and persist calls, in any order
InitPersist == InitProps /\ InitStore /\ InitCount /\ InitGraph
NextPersist ==
    \/ \E kw \in ListKwargs(PersistStrs) : Construct(kw)
    \/ \E kw \in ScalarKwargs(PersistStrs) : Construct(kw)
    \/ Property_add_vertex
    \/ Property_add_type
    \/ Property_add_edge
    \/ StorageError
SpecPersist == InitPersist /\ [][NextPersist]_vars

\* builds, one after another, and path queries between them
InitLocalGraph == InitProps /\ InitStore /\ InitCount /\ InitGraph
NextGraph ==
    \/ BuildStart
    \/ \E ep \in PlainEndpoints : BuildEndpoint(ep)
    \/ BuildFinish
    \/ \E name1, name2 \in QueryNames : find_shortest_paths(name1, name2)
SpecGraph == InitLocalGraph /\ [][NextGraph]_vars

\* one build of a new LocalGraph, over endpoints with differing key sets
NextBuild ==
    \/ graph = EmptyGraph /\ bstat = "none" /\ BuildStart
    \/ \E ep \in AllEndpoints : BuildEndpoint(ep)
    \/ BuildFinish
SpecBuild == InitLocalGraph /\ [][NextBuild]_vars

\* ================================================================ claims
BothKeywords == args.hasValues /\ args.hasType
Called == result.kind # "none"
FullyMatches(type, v) == re_fullmatch(type.allowed_regex, v)
SatisfiesType(type, values) ==
    /\ Len(values) = type.n_values
    /\ \A i \in 1..Len(values) : FullyMatches(type, values[i])

FilterSatisfied(f, n) ==
    /\ f[1] # <<>> => Containing(n, f[1])
    /\ f[2] # "" => f[2] \in storeTypes[n].allowed_types
WellFormed(fa) == \A i \in 1..Len(fa.list) : Len(fa.list[i]) = 2
Remaining(fa) ==
    {i \in 1..Len(fa.list) : fa.list[i][1] # <<>> \/ fa.list[i][2] # ""}
\* ---- C1 (as claimed): get_count returns the number of active
\* PropertyType vertices that satisfy at least one filter, a filter being
\* satisfied when each of its non-empty elements holds (so a filter with
\* both elements empty is satisfied by every type); an empty list, or no
\* list, counts every active PropertyType.
C1_CountIsDisjunctionOfFilters ==
    (countResult.kind # "none" /\ WellFormed(filtersArg)) =>
        /\ countResult.kind = "ok"
        /\ countResult.n =
              Cardinality({n \in DOMAIN storeTypes :
                  /\ storeTypes[n].active
                  /\ Len(filtersArg.list) > 0 =>
                        \E i \in 1..Len(filtersArg.list) :
                            FilterSatisfied(filtersArg.list[i], n)})
\* ---- C1 (amended): a filter with both elements empty is left out; the
\* count is the number of active PropertyType vertices that satisfy at
\* least one of the remaining filters, and the number of all active
\* PropertyType vertices when no filter remains.
C1_CountIgnoresEmptyFilters ==
    (countResult.kind # "none" /\ WellFormed(filtersArg)) =>
        /\ countResult.kind = "ok"
        /\ countResult.n =
              Cardinality({n \in DOMAIN storeTypes :
                  /\ storeTypes[n].active
                  /\ Remaining(filtersArg) # {} =>
                        \E i \in Remaining(filtersArg) :
                            FilterSatisfied(filtersArg.list[i], n)})
\* an empty filter next to one that some, but not all, active types satisfy
C1_Witness ==
    /\ countResult.kind = "ok"
    /\ Len(filtersArg.list) = 2
    /\ filtersArg.list[1] = <<<<>>, "">>
    /\ filtersArg.list[2][1] # <<>>
    /\ filtersArg.list[2][2] # ""
    /\ countResult.n = 1
    /\ Cardinality({n \in DOMAIN storeTypes : storeTypes[n].active}) = 2
    /\ \E n \in DOMAIN storeTypes : ~storeTypes[n].active

\* ---- C2: every property vertex in the store, and every Property object
\* that can be handed to _add, has exactly type.n_values values, each fully
\* matching type.allowed_regex.
C2_OnlyValidPropertiesReachTheStore ==
    /\ \A i \in 1..Len(storeProps) :
          SatisfiesType(storeProps[i].type, storeProps[i].values)
    /\ cur.made => SatisfiesType(cur.type, cur.values)
\* a rejected construction, and two property vertices written around it
C2_Witness ==
    /\ result.kind = "ValueError"
    /\ Len(storeProps) = 2
    /\ pstat = "done"

\* ---- C3 (as claimed): a values list with an element that does not fully
\* match type.allowed_regex is rejected with the regex error (ValueError),
\* whatever its length.
C3_MismatchAlwaysValueError ==
    (Called /\ BothKeywords
        /\ \E i \in 1..Len(CoercedValues(args)) :
              ~FullyMatches(args.type, CoercedValues(args)[i]))
    => result.kind = "ValueError"
\* ---- C3 (amended): when the list has exactly type.n_values values and one
\* of them does not fully match type.allowed_regex, construction fails with
\* the regex error, which names the first offending value, the type name
\* and the pattern; with any other length it fails with the arity error.
C3_MismatchAtRightLengthValueError ==
    (Called /\ BothKeywords
        /\ \E i \in 1..Len(CoercedValues(args)) :
              ~FullyMatches(args.type, CoercedValues(args)[i]))
    => IF Len(CoercedValues(args)) = args.type.n_values
       THEN /\ result.kind = "ValueError"
            /\ Len(result.texts) = 3
            /\ \E i \in 1..Len(CoercedValues(args)) :
                  /\ result.texts[1] = CoercedValues(args)[i]
                  /\ ~FullyMatches(args.type, CoercedValues(args)[i])
            /\ result.texts[2] = args.type.name
            /\ result.texts[3] = args.type.allowed_regex
       ELSE result.kind = "TypeError" /\ result.fmt = "required"
\* two values, the first matching and the second not
C3_Witness ==
    /\ result.kind = "ValueError"
    /\ args.isList
    /\ Len(args.values) = 2
    /\ FullyMatches(args.type, args.values[1])
    /\ ~FullyMatches(args.type, args.values[2])

NamesCount(r, k) == \E i \in 1..Len(r.nums) : r.nums[i] = k
\* ---- C4 (as claimed): an arity mismatch fails with the arity error, whose
\* message names the expected and the actual number of values.
C4_ArityErrorNamesBothCounts ==
    (Called /\ BothKeywords
        /\ Len(CoercedValues(args)) # args.type.n_values)
    => /\ result.kind = "TypeError"
       /\ result.fmt = "required"
       /\ NamesCount(result, args.type.n_values)
       /\ NamesCount(result, Len(CoercedValues(args)))
\* ---- C4 (amended): an arity mismatch fails with the arity error (a
\* TypeError "<n> value(s) is/are required."), whose message names the
\* expected number type.n_values and no other number.
C4_ArityErrorNamesExpectedCount ==
    (Called /\ BothKeywords
        /\ Len(CoercedValues(args)) # args.type.n_values)
    => /\ result.kind = "TypeError"
       /\ result.fmt = "required"
       /\ result.nums = <<args.type.n_values>>
\* a scalar, coerced to one value, given to a type that wants two
C4_Witness ==
    /\ Called
    /\ BothKeywords
    /\ ~args.isList
    /\ args.type.n_values = 2
    /\ result.fmt = "required"

IsProp(k) == k >= 1 /\ writes[k].kind = "property"
IsTypeOf(k, t) == k >= 1 /\ writes[k].kind = "type" /\ writes[k].t = t
TypeWrittenBefore(k, t) == \E j \in 1..(k - 1) : IsTypeOf(j, t)
\* ---- C5: the writes of one _add are the property vertex, then the type
\* vertex exactly when the type is not yet in the store, then the edge from
\* the property vertex (out) to its type vertex (in); an edge is written
\* only when both its endpoints are in the store, and a completed _add
\* leaves the type vertex and that edge in the store.
C5_WritesInOrder ==
    /\ \A k \in 1..Len(writes) :
          /\ writes[k].kind = "type" =>
                /\ IsProp(k - 1)
                /\ storeProps[writes[k - 1].p].type.name = writes[k].t
                /\ ~TypeWrittenBefore(k, writes[k].t)
          /\ writes[k].kind = "edge" =>
                /\ writes[k].p \in 1..Len(storeProps)
                /\ writes[k].t = storeProps[writes[k].p].type.name
                /\ writes[k].t \in DOMAIN storeTypes
                /\ \/ /\ IsProp(k - 1)
                      /\ writes[k - 1].p = writes[k].p
                      /\ TypeWrittenBefore(k - 1, writes[k].t)
                   \/ /\ IsTypeOf(k - 1, writes[k].t)
                      /\ IsProp(k - 2)
                      /\ writes[k - 2].p = writes[k].p
    /\ \A e \in storeEdges :
          /\ e.outV \in 1..Len(storeProps)
          /\ e.inV \in DOMAIN storeTypes
    /\ pstat = "done" =>
          /\ storeProps[pid].type.name \in DOMAIN storeTypes
          /\ [outV |-> pid, inV |-> storeProps[pid].type.name] \in storeEdges
\* one completed _add that wrote the type and one that found it present
C5_Witness ==
    /\ pstat = "done"
    /\ \E k \in 3..Len(writes) :
          writes[k].kind = "edge" /\ writes[k - 1].kind = "type"
    /\ \E k \in 2..Len(writes) :
          writes[k].kind = "edge" /\ writes[k - 1].kind = "property"

\* ---- C9: a type vertex is written at most once per name, each time right
\* after the vertex of a Property of that type; the _add of a further
\* Property of that type writes no type vertex.
C9_TypeWrittenAtMostOnce ==
    \A k \in 1..Len(writes) :
        writes[k].kind = "type" =>
            /\ \A j \in 1..Len(writes) :
                  (writes[j].kind = "type" /\ writes[j].t = writes[k].t)
                      => j = k
            /\ k >= 2
            /\ writes[k - 1].kind = "property"
            /\ storeProps[writes[k - 1].p].type.name = writes[k].t
\* two Properties of one type added, the type written once
C9_Witness ==
    /\ pstat = "done"
    /\ Len(storeProps) = 2
    /\ storeProps[1].type = storeProps[2].type
    /\ Cardinality(storeEdges) = 2
    /\ Cardinality({k \in 1..Len(writes) : writes[k].kind = "type"}) = 1

\* ---- helpers: the input of the build, read from the endpoints iterated
NameOf(ep) == ep.properties["name"][1]
NamesIn(i) == {NameOf(consumed[j]) : j \in 1..i}
FirstAt(i) == NameOf(consumed[i]) \notin NamesIn(i - 1)
FirstIndexOf(name) ==
    CHOOSE i \in 1..Len(consumed) : NameOf(consumed[i]) = name /\ FirstAt(i)
\* the rank of a name among the distinct names, in input order
RankOf(name) == Cardinality(NamesIn(FirstIndexOf(name) - 1))

\* ---- C6: once a build has ended, the graph is that of the build's input
\* alone: one vertex per distinct endpoint name, one edge per record (equal
\* records give parallel edges), each edge joining the vertices that carry
\* the names of its record.
C6_GraphIsTheLastInput ==
    (gpc = "idle" /\ bstat # "none") =>
        /\ graph.n = Cardinality(NamesIn(Len(consumed)))
        /\ 2 * Len(graph.es) = Len(consumed)
        /\ graph.n = 0 => graph = EmptyGraph
        /\ graph.n > 0 =>
              /\ "name" \in DOMAIN graph.vs
              /\ \A i, j \in 1..graph.n :
                    graph.vs["name"][i] = graph.vs["name"][j] => i = j
              /\ \A k \in 1..Len(graph.es) :
                    /\ graph.vs["name"][graph.es[k][1] + 1]
                          = NameOf(consumed[2 * k - 1])
                    /\ graph.vs["name"][graph.es[k][2] + 1]
                          = NameOf(consumed[2 * k])
\* a graph of two vertices rebuilt from two equal records over one name
C6_Witness ==
    /\ gpc = "idle"
    /\ prevN = 2
    /\ graph.n = 1
    /\ Len(graph.es) = 2

RECURSIVE FirstsTable(_)
FirstsTable(i) ==
    IF i = 0 THEN <<>>
    ELSE IF FirstAt(i)
    THEN AppendProperties(FirstsTable(i - 1), WithType(consumed[i]))
    ELSE FirstsTable(i - 1)
\* ---- C7: at every step of the build each name has the index its first
\* occurrence gave it (its rank among the distinct names), every endpoint
\* is recorded under that index, and the table of stored values is the one
\* the first occurrences alone produce: later occurrences change nothing.
C7_FirstOccurrenceFixesVertex ==
    /\ vertex_properties = FirstsTable(Len(consumed))
    /\ DOMAIN vertex_name_to_ind = NamesIn(Len(consumed))
    /\ \A i \in 1..Len(consumed) :
          LET name == NameOf(consumed[i])
              first == consumed[FirstIndexOf(name)]
          IN  /\ vertex_name_to_ind[name] = RankOf(name)
              /\ vertex_properties["name"][RankOf(name) + 1] = name
              /\ vertex_properties["type"][RankOf(name) + 1] = first.type
    /\ \A k \in 1..Len(vertex_index_connections) :
          vertex_index_connections[k] =
              <<RankOf(NameOf(consumed[2 * k - 1])),
                RankOf(NameOf(consumed[2 * k]))>>
    /\ (gpc = "idle" /\ bstat = "ok") =>
          \A i \in 1..Len(consumed) :
              graph.vs["type"][RankOf(NameOf(consumed[i])) + 1]
                  = consumed[FirstIndexOf(NameOf(consumed[i]))].type
\* a name met again with another type and another set of keys
C7_Witness ==
    /\ gpc = "idle"
    /\ bstat = "ok"
    /\ \E i, j \in 1..Len(consumed) :
          /\ i < j
          /\ NameOf(consumed[i]) = NameOf(consumed[j])
          /\ consumed[i].type # consumed[j].type
          /\ DOMAIN consumed[i].properties # DOMAIN consumed[j].properties

\* ---- C8 (as claimed): a path query that names a vertex the graph does
\* not have returns an empty result and raises nothing.
C8_AbsentNameGivesEmptyResult ==
    (/\ spResult.kind # "none"
     /\ ~HasVertex(graph, query[1]) \/ ~HasVertex(graph, query[2]))
    => spResult.kind = "ok" /\ spResult.paths = {}

\* ---- C10 (as claimed): at every step of the build and at its end, every
\* array of the vertex property table has one slot per registered vertex,
\* and slot i holds the first-seen value of the vertex with index i.
C10_ArraysAreParallel ==
    \A key \in DOMAIN vertex_properties :
        /\ Len(vertex_properties[key]) = vertices_so_far
        /\ \A name \in DOMAIN vertex_name_to_ind :
              LET first == WithType(consumed[FirstIndexOf(name)])
              IN  key \in DOMAIN first =>
                      vertex_properties[key][vertex_name_to_ind[name] + 1]
                          = first[key][1]

====
